---- MODULE Spec2Model ----
(***************************************************************************)
(* Model of the smart-ambulance early warning system:                      *)
(*   - TemporalAlertBuffer and EnhancedRiskScorer                          *)
(*     (src/src/enhanced_risk_score.py)                                    *)
(*   - the Safety Override Gate of POST /predict (src/api/app.py), with    *)
(*     clean_vitals (src/src/artifact_handler.py)                          *)
(*                                                                         *)
(* Units.  anomaly_score, confidence, motion and slopes are kept in        *)
(* tenths (0.7 is 7); risk scores are kept in tenths of a point (95.0 is   *)
(* 950).  Raw vitals are even integers, so that the median of an even      *)
(* number of samples is an integer.                                        *)
(***************************************************************************)
EXTENDS Integers, Sequences, FiniteSets, TLC

VARIABLES
    \* TemporalAlertBuffer
    buffer_size,           \* self.buffer_size
    recent_alerts,         \* self.recent_alerts
    \* EnhancedRiskScorer configuration
    min_confidence,        \* self.min_confidence (tenths)
    min_abnormal_signals,  \* self.min_abnormal_signals
    motion_threshold,      \* self.motion_threshold (tenths)
    critical_override,     \* self.critical_override
    \* arguments of the current / last calculate_risk_score call
    features, anomaly_score, confidence,
    \* what the last calculate_risk_score call returned
    decision,
    \* observation of the buffer: the values handed to should_alert since
    \* creation or reset, and what each of those calls returned
    pushed, returned,
    \* decisions of the windows evaluated since creation or reset
    log,
    \* POST /predict: the request batch, the response, collaborators called
    batch, response, model_invoked,
    \* POST /predict: the last row of compute_risk_score's frame
    latest,
    \* POST /predict: the requests answered so far, each with its response
    served,
    \* apply_enhanced_risk_scoring: the frames it was called with
    frame,
    \* two threads calling should_alert on one buffer
    threads,
    \* position of the driver
    pc

vars == << buffer_size, recent_alerts, min_confidence, min_abnormal_signals,
           motion_threshold, critical_override, features, anomaly_score,
           confidence, decision, pushed, returned, log, batch, response,
           model_invoked, latest, served, frame, threads, pc >>

(***************************************************************************)
(* Bounds                                                                  *)
(***************************************************************************)
MaxBufferSize == 3
MaxCascadeBuffer == 2
MaxPushes == 6
MaxWindows == 4
MaxBatch == 3

(***************************************************************************)
(* Program constants                                                       *)
(***************************************************************************)
THRESHOLDS ==
    [ spo2_critical |-> 88, spo2_warning |-> 92, hr_critical |-> 140,
      hr_warning |-> 120, hr_low |-> 50, sbp_critical |-> 90,
      sbp_warning |-> 100 ]

DefaultBufferSize == 3
DefaultMinConfidence == 7
DefaultMinAbnormalSignals == 2
DefaultMotionThreshold == 5

\* min that wraps around instead of capping
MinWrap(a, b) == IF a < b THEN a ELSE a - b

\* min that never caps: returns its first argument
MinUncapped(a, b) == a

Min(a, b) == IF a < b THEN a ELSE b
Max(a, b) == IF a > b THEN a ELSE b

AllTrue(s) == \A i \in 1..Len(s) : s[i]

\* dict.get answering full certainty for an absent key
GetCertain(f, k, d) == IF k \in DOMAIN f THEN f[k] ELSE 10

\* dict.get that reads every absent key as 0
GetZero(f, k, d) == IF k \in DOMAIN f THEN f[k] ELSE 0

\* dict.get(key, default)
Get(f, k, d) == IF k \in DOMAIN f THEN f[k] ELSE d

(***************************************************************************)
(* TemporalAlertBuffer                                                     *)
(***************************************************************************)
\* should_alert with the eviction left out
should_alert_no_evict(ra, n, current_prediction) ==
    LET appended == Append(ra, current_prediction)
    IN  [ recent_alerts |-> appended,
          result |-> IF Len(appended) = n THEN AllTrue(appended) ELSE FALSE ]

\* should_alert answering any() instead of all()
should_alert_any(ra, n, current_prediction) ==
    LET appended == Append(ra, current_prediction)
        kept == IF Len(appended) > n THEN Tail(appended) ELSE appended
    IN  [ recent_alerts |-> kept,
          result |-> IF Len(kept) = n
                     THEN \E i \in 1..Len(kept) : kept[i]
                     ELSE FALSE ]

\* append, pop(0) when longer than buffer_size, all() when exactly full
should_alert(ra, n, current_prediction) ==
    LET appended == Append(ra, current_prediction)
        kept == IF Len(appended) > n THEN Tail(appended) ELSE appended
    IN  [ recent_alerts |-> kept,
          result |-> IF Len(kept) = n THEN AllTrue(kept) ELSE FALSE ]

\* TemporalAlertBuffer.reset
buffer_reset == << >>

\* count_abnormal_signals comparing hr_max with the warning threshold
count_abnormal_signals_hr_warning(f) ==
    (IF Get(f, "spo2_mean", 100) < THRESHOLDS.spo2_warning
        THEN << "spo2_low" >> ELSE << >>)
    \o (IF Get(f, "spo2_min", 100) < THRESHOLDS.spo2_critical
        THEN << "spo2_critical" >> ELSE << >>)
    \o (IF Get(f, "hr_mean", 70) > THRESHOLDS.hr_warning
        THEN << "hr_high" >> ELSE << >>)
    \o (IF Get(f, "hr_max", 100) > THRESHOLDS.hr_warning
        THEN << "hr_critical" >> ELSE << >>)
    \o (IF Get(f, "sbp_mean", 120) < THRESHOLDS.sbp_warning
        THEN << "sbp_low" >> ELSE << >>)
    \o (IF Get(f, "spo2_slope", 0) < -5
        THEN << "spo2_dropping" >> ELSE << >>)
    \o (IF Get(f, "hr_slope", 0) > 5
        THEN << "hr_rising" >> ELSE << >>)

(***************************************************************************)
(* EnhancedRiskScorer                                                      *)
(***************************************************************************)
\* count_abnormal_signals: the ordered list of abnormal signal names
\* (the count is its length)
count_abnormal_signals(f) ==
    (IF Get(f, "spo2_mean", 100) < THRESHOLDS.spo2_warning
        THEN << "spo2_low" >> ELSE << >>)
    \o (IF Get(f, "spo2_min", 100) < THRESHOLDS.spo2_critical
        THEN << "spo2_critical" >> ELSE << >>)
    \o (IF Get(f, "hr_mean", 70) > THRESHOLDS.hr_warning
        THEN << "hr_high" >> ELSE << >>)
    \o (IF Get(f, "hr_max", 100) > THRESHOLDS.hr_critical
        THEN << "hr_critical" >> ELSE << >>)
    \o (IF Get(f, "sbp_mean", 120) < THRESHOLDS.sbp_warning
        THEN << "sbp_low" >> ELSE << >>)
    \o (IF Get(f, "spo2_slope", 0) < -5
        THEN << "spo2_dropping" >> ELSE << >>)
    \o (IF Get(f, "hr_slope", 0) > 5
        THEN << "hr_rising" >> ELSE << >>)

\* check_critical_condition without the hypoxemia rule
check_critical_condition_no_hypoxemia(f) ==
    IF Get(f, "hr_max", 100) > THRESHOLDS.hr_critical
    THEN [ is_critical |-> TRUE, reason |-> "Critical tachycardia (HR > 140)" ]
    ELSE IF Get(f, "sbp_mean", 120) < THRESHOLDS.sbp_critical
    THEN [ is_critical |-> TRUE, reason |-> "Critical hypotension (SBP < 90)" ]
    ELSE IF Get(f, "spo2_mean", 100) < THRESHOLDS.spo2_warning
            /\ Get(f, "hr_mean", 70) > THRESHOLDS.hr_warning
    THEN [ is_critical |-> TRUE, reason |-> "Combined cardiopulmonary stress" ]
    ELSE [ is_critical |-> FALSE, reason |-> "" ]

\* check_critical_condition without the combined rule
check_critical_condition_no_combined(f) ==
    IF Get(f, "spo2_min", 100) < THRESHOLDS.spo2_critical
    THEN [ is_critical |-> TRUE, reason |-> "Critical hypoxemia (SpO2 < 88%)" ]
    ELSE IF Get(f, "hr_max", 100) > THRESHOLDS.hr_critical
    THEN [ is_critical |-> TRUE, reason |-> "Critical tachycardia (HR > 140)" ]
    ELSE IF Get(f, "sbp_mean", 120) < THRESHOLDS.sbp_critical
    THEN [ is_critical |-> TRUE, reason |-> "Critical hypotension (SBP < 90)" ]
    ELSE [ is_critical |-> FALSE, reason |-> "" ]

\* check_critical_condition: (is_critical, reason), first matching rule
check_critical_condition(f) ==
    IF Get(f, "spo2_min", 100) < THRESHOLDS.spo2_critical
    THEN [ is_critical |-> TRUE, reason |-> "Critical hypoxemia (SpO2 < 88%)" ]
    ELSE IF Get(f, "hr_max", 100) > THRESHOLDS.hr_critical
    THEN [ is_critical |-> TRUE, reason |-> "Critical tachycardia (HR > 140)" ]
    ELSE IF Get(f, "sbp_mean", 120) < THRESHOLDS.sbp_critical
    THEN [ is_critical |-> TRUE, reason |-> "Critical hypotension (SBP < 90)" ]
    ELSE IF Get(f, "spo2_mean", 100) < THRESHOLDS.spo2_warning
            /\ Get(f, "hr_mean", 70) > THRESHOLDS.hr_warning
    THEN [ is_critical |-> TRUE, reason |-> "Combined cardiopulmonary stress" ]
    ELSE [ is_critical |-> FALSE, reason |-> "" ]

\* check_physiological_plausibility without the hypoxia-without-tachycardia rule
check_physiological_plausibility_no_hypoxia_rule(f) ==
    IF Get(f, "hr_mean", 70) < THRESHOLDS.hr_low /\ Get(f, "spo2_mean", 95) > 95
    THEN [ is_plausible |-> FALSE,
           reason |-> "Implausible: Low HR with normal SpO2" ]
    ELSE IF Get(f, "sbp_mean", 120) < Get(f, "dbp_mean", 80)
            /\ Get(f, "sbp_mean", 120) > 0
    THEN [ is_plausible |-> FALSE,
           reason |-> "Implausible: SBP < DBP (sensor error)" ]
    ELSE [ is_plausible |-> TRUE, reason |-> "" ]

\* check_physiological_plausibility: (is_plausible, reason if not)
check_physiological_plausibility(f) ==
    IF Get(f, "hr_mean", 70) < THRESHOLDS.hr_low /\ Get(f, "spo2_mean", 95) > 95
    THEN [ is_plausible |-> FALSE,
           reason |-> "Implausible: Low HR with normal SpO2" ]
    ELSE IF Get(f, "spo2_mean", 100) < 90 /\ Get(f, "hr_mean", 70) < 80
    THEN [ is_plausible |-> FALSE,
           reason |-> "Implausible: Severe hypoxia without tachycardia" ]
    ELSE IF Get(f, "sbp_mean", 120) < Get(f, "dbp_mean", 80)
            /\ Get(f, "sbp_mean", 120) > 0
    THEN [ is_plausible |-> FALSE,
           reason |-> "Implausible: SBP < DBP (sensor error)" ]
    ELSE [ is_plausible |-> TRUE, reason |-> "" ]

\* assess_motion_artifact with the threshold the scorer was built with
assess_motion_artifact_initial_threshold(f) ==
    Get(f, "motion_std", 0) > DefaultMotionThreshold
        \/ Get(f, "motion_max", 0) > 10

\* assess_motion_artifact requiring both motion tests
assess_motion_artifact_both(f) ==
    Get(f, "motion_std", 0) > motion_threshold /\ Get(f, "motion_max", 0) > 10

\* assess_motion_artifact: is_high_motion
assess_motion_artifact(f) ==
    Get(f, "motion_std", 0) > motion_threshold \/ Get(f, "motion_max", 0) > 10

\* The 4-tuple calculate_risk_score returns (risk_score, should_alert and
\* the debug_info fields), the buffer it leaves behind, and the values it
\* handed to alert_buffer.should_alert (none or one).
Verdict(risk, alert, stage, signals, crit, plaus, motion, buffered, ra, calls) ==
    [ risk_score |-> risk, alert |-> alert, stage |-> stage,
      abnormal_signals |-> signals, critical |-> crit, plausible |-> plaus,
      high_motion |-> motion, buffered |-> buffered,
      recent_alerts |-> ra, buffer_calls |-> calls ]

\* calculate_risk_score recording a motion-suppressed window in the buffer
\* as a non-alert
calculate_risk_score_push_suppressed(f, a, c, ra) ==
    LET plaus == check_physiological_plausibility(f).is_plausible
        crit == check_critical_condition(f).is_critical
        signals == count_abnormal_signals(f)
        abnormal_count == Len(signals)
        motion == assess_motion_artifact(f)
        risk == Min(a * 100 + 10 * Min(abnormal_count * 5, 20), 1000)
        raw_alert == risk > 700
        buf == should_alert(ra, buffer_size, raw_alert)
        quiet == should_alert(ra, buffer_size, FALSE)
    IN  IF ~plaus
        THEN Verdict(0, FALSE, "plausibility_failed", << >>, FALSE, FALSE,
                     FALSE, FALSE, ra, << >>)
        ELSE IF crit /\ critical_override
        THEN Verdict(950 + a * 5, TRUE, "critical_override", << >>, TRUE,
                     TRUE, FALSE, FALSE, ra, << >>)
        ELSE IF abnormal_count < min_abnormal_signals
        THEN Verdict(a * 50, FALSE, "insufficient_signals", signals, crit,
                     TRUE, FALSE, FALSE, ra, << >>)
        ELSE IF motion /\ ~crit
        THEN Verdict(a * 40, FALSE, "motion_artifact", signals, crit, TRUE,
                     TRUE, FALSE, quiet.recent_alerts, << FALSE >>)
        ELSE IF c < min_confidence /\ ~crit
        THEN Verdict(a * 60, FALSE, "low_confidence", signals, crit, TRUE,
                     motion, FALSE, ra, << >>)
        ELSE IF buf.result
        THEN Verdict(risk, TRUE, "confirmed_alert", signals, crit, TRUE,
                     motion, TRUE, buf.recent_alerts, << raw_alert >>)
        ELSE Verdict(risk, FALSE, "awaiting_confirmation", signals, crit,
                     TRUE, motion, FALSE, buf.recent_alerts, << raw_alert >>)

\* calculate_risk_score testing motion before the abnormal-signal count
calculate_risk_score_motion_first(f, a, c, ra) ==
    LET plaus == check_physiological_plausibility(f).is_plausible
        crit == check_critical_condition(f).is_critical
        signals == count_abnormal_signals(f)
        abnormal_count == Len(signals)
        motion == assess_motion_artifact(f)
        risk == Min(a * 100 + 10 * Min(abnormal_count * 5, 20), 1000)
        raw_alert == risk > 700
        buf == should_alert(ra, buffer_size, raw_alert)
    IN  IF ~plaus
        THEN Verdict(0, FALSE, "plausibility_failed", << >>, FALSE, FALSE,
                     FALSE, FALSE, ra, << >>)
        ELSE IF crit /\ critical_override
        THEN Verdict(950 + a * 5, TRUE, "critical_override", << >>, TRUE,
                     TRUE, FALSE, FALSE, ra, << >>)
        ELSE IF motion /\ ~crit
        THEN Verdict(a * 40, FALSE, "motion_artifact", signals, crit, TRUE,
                     TRUE, FALSE, ra, << >>)
        ELSE IF abnormal_count < min_abnormal_signals
        THEN Verdict(a * 50, FALSE, "insufficient_signals", signals, crit,
                     TRUE, FALSE, FALSE, ra, << >>)
        ELSE IF c < min_confidence /\ ~crit
        THEN Verdict(a * 60, FALSE, "low_confidence", signals, crit, TRUE,
                     motion, FALSE, ra, << >>)
        ELSE IF buf.result
        THEN Verdict(risk, TRUE, "confirmed_alert", signals, crit, TRUE,
                     motion, TRUE, buf.recent_alerts, << raw_alert >>)
        ELSE Verdict(risk, FALSE, "awaiting_confirmation", signals, crit,
                     TRUE, motion, FALSE, buf.recent_alerts, << raw_alert >>)

\* calculate_risk_score alerting on the raw threshold, the temporal buffer
\* only recorded
calculate_risk_score_unbuffered(f, a, c, ra) ==
    LET plaus == check_physiological_plausibility(f).is_plausible
        crit == check_critical_condition(f).is_critical
        signals == count_abnormal_signals(f)
        abnormal_count == Len(signals)
        motion == assess_motion_artifact(f)
        risk == Min(a * 100 + 10 * Min(abnormal_count * 5, 20), 1000)
        raw_alert == risk > 700
        buf == should_alert(ra, buffer_size, raw_alert)
    IN  IF ~plaus
        THEN Verdict(0, FALSE, "plausibility_failed", << >>, FALSE, FALSE,
                     FALSE, FALSE, ra, << >>)
        ELSE IF crit /\ critical_override
        THEN Verdict(950 + a * 5, TRUE, "critical_override", << >>, TRUE,
                     TRUE, FALSE, FALSE, ra, << >>)
        ELSE IF abnormal_count < min_abnormal_signals
        THEN Verdict(a * 50, FALSE, "insufficient_signals", signals, crit,
                     TRUE, FALSE, FALSE, ra, << >>)
        ELSE IF motion /\ ~crit
        THEN Verdict(a * 40, FALSE, "motion_artifact", signals, crit, TRUE,
                     TRUE, FALSE, ra, << >>)
        ELSE IF c < min_confidence /\ ~crit
        THEN Verdict(a * 60, FALSE, "low_confidence", signals, crit, TRUE,
                     motion, FALSE, ra, << >>)
        ELSE IF raw_alert
        THEN Verdict(risk, TRUE, "confirmed_alert", signals, crit, TRUE,
                     motion, buf.result, buf.recent_alerts, << raw_alert >>)
        ELSE Verdict(risk, FALSE, "awaiting_confirmation", signals, crit,
                     TRUE, motion, buf.result, buf.recent_alerts,
                     << raw_alert >>)

\* calculate_risk_score(features, anomaly_score, confidence) on a scorer
\* whose alert_buffer.recent_alerts is ra
calculate_risk_score(f, a, c, ra) ==
    LET plaus == check_physiological_plausibility(f).is_plausible
        crit == check_critical_condition(f).is_critical
        signals == count_abnormal_signals(f)
        abnormal_count == Len(signals)
        motion == assess_motion_artifact(f)
        \* STAGE 6: base_risk + signal_boost, capped at 100
        risk == Min(a * 100 + 10 * Min(abnormal_count * 5, 20), 1000)
        \* STAGE 7
        raw_alert == risk > 700
        buf == should_alert(ra, buffer_size, raw_alert)
    IN  IF ~plaus
        THEN Verdict(0, FALSE, "plausibility_failed", << >>, FALSE, FALSE,
                     FALSE, FALSE, ra, << >>)
        ELSE IF crit /\ critical_override
        THEN Verdict(950 + a * 5, TRUE, "critical_override", << >>, TRUE,
                     TRUE, FALSE, FALSE, ra, << >>)
        ELSE IF abnormal_count < min_abnormal_signals
        THEN Verdict(a * 50, FALSE, "insufficient_signals", signals, crit,
                     TRUE, FALSE, FALSE, ra, << >>)
        ELSE IF motion /\ ~crit
        THEN Verdict(a * 40, FALSE, "motion_artifact", signals, crit, TRUE,
                     TRUE, FALSE, ra, << >>)
        ELSE IF c < min_confidence /\ ~crit
        THEN Verdict(a * 60, FALSE, "low_confidence", signals, crit, TRUE,
                     motion, FALSE, ra, << >>)
        ELSE IF buf.result
        THEN Verdict(risk, TRUE, "confirmed_alert", signals, crit, TRUE,
                     motion, TRUE, buf.recent_alerts, << raw_alert >>)
        ELSE Verdict(risk, FALSE, "awaiting_confirmation", signals, crit,
                     TRUE, motion, FALSE, buf.recent_alerts, << raw_alert >>)

\* EnhancedRiskScorer.reset
scorer_reset == buffer_reset

(***************************************************************************)
(* Inputs                                                                  *)
(***************************************************************************)
\* a dict with the single key k, or without it
Opt(k, values, absent) ==
    { [ x \in {k} |-> v ] : v \in values }
        \cup (IF absent THEN { [ x \in {} |-> 0 ] } ELSE {})

\* dict union (keys are disjoint)
Merge(f, g) ==
    [ k \in DOMAIN f \cup DOMAIN g |-> IF k \in DOMAIN f THEN f[k] ELSE g[k] ]

\* values on both sides of every threshold the scorer compares with
BloodPressures ==
    { [ sbp_mean |-> 120, dbp_mean |-> 80 ], [ sbp_mean |-> 95, dbp_mean |-> 80 ],
      [ sbp_mean |-> 85, dbp_mean |-> 80 ], [ sbp_mean |-> 120, dbp_mean |-> 130 ],
      [ sbp_mean |-> 0, dbp_mean |-> 80 ] }

Slopes ==
    { [ spo2_slope |-> s, hr_slope |-> h ] : s \in {0, -10}, h \in {0, 10} }

Motions ==
    { [ motion_std |-> 1, motion_max |-> 0 ], [ motion_std |-> 8, motion_max |-> 0 ],
      [ motion_std |-> 1, motion_max |-> 15 ] }

Windows ==
    { Merge(Merge(Merge(sm, hm), Merge(sn, hx)), Merge(bp, Merge(sl, mo))) :
        sm \in Opt("spo2_mean", {89, 91, 94, 98}, TRUE),
        hm \in Opt("hr_mean", {40, 75, 110, 130}, TRUE),
        sn \in Opt("spo2_min", {85, 93}, FALSE),
        hx \in Opt("hr_max", {125, 150}, FALSE),
        bp \in BloodPressures, sl \in Slopes, mo \in Motions }

\* the windows of the module's own test run (lines 371-378, 393-400); they
\* carry six fields each
test_features_single ==
    [ spo2_mean |-> 94, spo2_min |-> 93, hr_mean |-> 85, hr_max |-> 95,
      sbp_mean |-> 120, motion_std |-> 1 ]

test_features_motion ==
    [ spo2_mean |-> 91, spo2_min |-> 88, hr_mean |-> 110, hr_max |-> 125,
      sbp_mean |-> 105, motion_std |-> 8 ]

ScenarioWindows == { test_features_single, test_features_motion }
ScenarioScores == {6, 7}
ScenarioConfidences == {7, 8}

AnomalyScores == {0, 6, 8, 10}
Confidences == {5, 7}

\* every buffer a TemporalAlertBuffer of capacity n can hold
Buffers(n) == UNION { [ 1..k -> BOOLEAN ] : k \in 0..Max(n, 0) }

NoDecision == Verdict(0, FALSE, "", << >>, FALSE, TRUE, FALSE, FALSE, << >>, << >>)
NoWindow == [ x \in {} |-> 0 ]
NoResponse == [ anomaly |-> FALSE, risk_score |-> 0, safety_override |-> FALSE ]

DefaultConfig ==
    /\ min_confidence = DefaultMinConfidence
    /\ min_abnormal_signals = DefaultMinAbnormalSignals
    /\ motion_threshold = DefaultMotionThreshold

NoLatest == [ anomaly_flag |-> FALSE, risk_score |-> 0, alert |-> FALSE ]

IdleGate ==
    /\ batch = << >>
    /\ response = NoResponse
    /\ model_invoked = FALSE
    /\ latest = NoLatest
    /\ served = << >>

IdleRun == frame = << >>

IdleThreads == threads = << >>

IdleScorer ==
    /\ features = NoWindow
    /\ anomaly_score = 0
    /\ confidence = 0
    /\ decision = NoDecision
    /\ log = << >>

(***************************************************************************)
(* SpecBuffer: a TemporalAlertBuffer driven through should_alert and reset *)
(***************************************************************************)
InitBuffer ==
    /\ buffer_size \in -1..MaxBufferSize
    /\ recent_alerts = << >>
    /\ pushed = << >>
    /\ returned = << >>
    /\ critical_override = TRUE
    /\ DefaultConfig
    /\ IdleScorer
    /\ IdleGate
    /\ IdleRun
    /\ IdleThreads
    /\ pc = "buffer"

ShouldAlert(current_prediction) ==
    /\ pc = "buffer"
    /\ Len(returned) < MaxPushes
    /\ LET r == should_alert(recent_alerts, buffer_size, current_prediction)
       IN  /\ recent_alerts' = r.recent_alerts
           /\ returned' = Append(returned, r.result)
    /\ pushed' = Append(pushed, current_prediction)
    /\ UNCHANGED << latest, served, frame, threads, buffer_size, min_confidence, min_abnormal_signals,
                    motion_threshold, critical_override, features,
                    anomaly_score, confidence, decision, log, batch, response,
                    model_invoked, pc >>

BufferReset ==
    /\ pc = "buffer"
    /\ recent_alerts' = buffer_reset
    /\ pushed' = << >>
    /\ returned' = << >>
    /\ UNCHANGED << latest, served, frame, threads, buffer_size, min_confidence,
                    min_abnormal_signals, motion_threshold, critical_override,
                    features, anomaly_score, confidence, decision, log, batch,
                    response, model_invoked, pc >>

NextBuffer ==
    \/ \E p \in BOOLEAN : ShouldAlert(p)
    \/ BufferReset

SpecBuffer == InitBuffer /\ [][NextBuffer]_vars

(***************************************************************************)
(* SpecCascade: one calculate_risk_score call on any window, score,        *)
(* confidence and buffer                                                   *)
(***************************************************************************)
InitCascade ==
    /\ buffer_size \in 0..MaxCascadeBuffer
    /\ recent_alerts \in Buffers(buffer_size)
    /\ pushed = << >>
    /\ returned = << >>
    /\ critical_override \in BOOLEAN
    /\ DefaultConfig
    /\ \/ /\ features \in Windows
          /\ anomaly_score \in AnomalyScores
          /\ confidence \in Confidences
       \/ /\ features \in ScenarioWindows
          /\ anomaly_score \in ScenarioScores
          /\ confidence \in ScenarioConfidences
    /\ decision = NoDecision
    /\ log = << >>
    /\ IdleGate
    /\ IdleRun
    /\ IdleThreads
    /\ pc = "call"

Evaluate ==
    /\ pc = "call"
    /\ decision' = calculate_risk_score(features, anomaly_score, confidence,
                                        recent_alerts)
    /\ recent_alerts' = decision'.recent_alerts
    /\ pushed' = pushed \o decision'.buffer_calls
    /\ pc' = "returned"
    /\ UNCHANGED << latest, served, frame, threads, buffer_size, min_confidence, min_abnormal_signals,
                    motion_threshold, critical_override, features,
                    anomaly_score, confidence, returned, log, batch, response,
                    model_invoked >>

NextCascade == Evaluate

SpecCascade == InitCascade /\ [][NextCascade]_vars

(***************************************************************************)
(* Spec: one scorer (one patient session) evaluating windows in sequence,  *)
(* reset between patients                                                  *)
(***************************************************************************)
NormalWindow ==
    [ spo2_mean |-> 98, spo2_min |-> 93, hr_mean |-> 75, hr_max |-> 125,
      sbp_mean |-> 120, dbp_mean |-> 80, spo2_slope |-> 0, hr_slope |-> 0,
      motion_std |-> 1, motion_max |-> 0 ]

SessionWindows ==
    { NormalWindow,
      \* sensor disconnect
      [ NormalWindow EXCEPT !.hr_mean = 40 ],
      \* hypoxemia
      [ NormalWindow EXCEPT !.spo2_mean = 89, !.spo2_min = 85, !.hr_mean = 110 ],
      \* two abnormal signals, not critical
      [ NormalWindow EXCEPT !.spo2_mean = 91, !.hr_mean = 110, !.sbp_mean = 95 ],
      \* the same in a moving vehicle
      [ NormalWindow EXCEPT !.spo2_mean = 91, !.hr_mean = 110, !.sbp_mean = 95,
                            !.motion_std = 8 ] }

SessionScores == {6, 8}

LogEntry(d) == [ stage |-> d.stage, risk_score |-> d.risk_score, alert |-> d.alert ]

Init ==
    /\ buffer_size \in 1..MaxBufferSize
    /\ recent_alerts = << >>
    /\ pushed = << >>
    /\ returned = << >>
    /\ critical_override = TRUE
    /\ DefaultConfig
    /\ IdleScorer
    /\ IdleGate
    /\ IdleRun
    /\ IdleThreads
    /\ pc = "session"

EvaluateWindow(f, a, c) ==
    /\ pc = "session"
    /\ Len(log) < MaxWindows
    /\ features' = f
    /\ anomaly_score' = a
    /\ confidence' = c
    /\ decision' = calculate_risk_score(f, a, c, recent_alerts)
    /\ recent_alerts' = decision'.recent_alerts
    /\ pushed' = pushed \o decision'.buffer_calls
    /\ returned' = IF decision'.buffer_calls = << >>
                   THEN returned ELSE Append(returned, decision'.buffered)
    /\ log' = Append(log, LogEntry(decision'))
    /\ UNCHANGED << latest, served, frame, threads, buffer_size, min_confidence, min_abnormal_signals,
                    motion_threshold, critical_override, batch, response,
                    model_invoked, pc >>

Reset ==
    /\ pc = "session"
    /\ recent_alerts' = scorer_reset
    /\ pushed' = << >>
    /\ returned' = << >>
    /\ log' = << >>
    /\ UNCHANGED << latest, served, frame, threads, buffer_size, min_confidence, min_abnormal_signals,
                    motion_threshold, critical_override, features,
                    anomaly_score, confidence, decision, batch, response,
                    model_invoked, pc >>

Next ==
    \/ \E f \in SessionWindows, a \in SessionScores, c \in Confidences :
          EvaluateWindow(f, a, c)
    \/ Reset

Spec == Init /\ [][Next]_vars

(***************************************************************************)
(* POST /predict                                                           *)
(***************************************************************************)
Range(s) == { s[i] : i \in 1..Len(s) }

SeqMin(s) == CHOOSE v \in Range(s) : \A u \in Range(s) : v <= u
SeqMax(s) == CHOOSE v \in Range(s) : \A u \in Range(s) : v >= u

\* the k-th smallest element of a non-empty sequence
Kth(s, k) ==
    CHOOSE v \in Range(s) :
        /\ Cardinality({ i \in 1..Len(s) : s[i] < v }) < k
        /\ Cardinality({ i \in 1..Len(s) : s[i] <= v }) >= k

\* median of a non-empty sequence of even integers
Median(s) ==
    IF Len(s) % 2 = 1
    THEN Kth(s, (Len(s) + 1) \div 2)
    ELSE (Kth(s, Len(s) \div 2) + Kth(s, Len(s) \div 2 + 1)) \div 2

\* series.rolling(window=5, center=True, min_periods=1).median() at row i
RollingMedian(col, i) ==
    LET lo == Max(1, i - 2)
        hi == Min(Len(col), i + 2)
    IN  Median([ j \in 1..(hi - lo + 1) |-> col[lo + j - 1] ])

Column(df, name) == [ i \in 1..Len(df) |-> df[i][name] ]

\* clean_vitals: the raw columns are kept, the filtered ones are added
\* (the batch holds no missing value, so interpolate changes nothing)
clean_vitals(df) ==
    [ i \in 1..Len(df) |->
        [ heart_rate |-> df[i].heart_rate, spo2 |-> df[i].spo2,
          sbp |-> df[i].sbp,
          heart_rate_clean |-> RollingMedian(Column(df, "heart_rate"), i),
          spo2_clean |-> RollingMedian(Column(df, "spo2"), i) ] ]

\* the summary with 0 as the value of every column of an empty batch
raw_vitals_summary_zero_defaults(df_clean) ==
    IF df_clean = << >>
    THEN [ min_spo2 |-> 0, max_hr |-> 0, min_sbp |-> 0, max_sbp |-> 0 ]
    ELSE [ min_spo2 |-> SeqMin(Column(df_clean, "spo2")),
           max_hr |-> SeqMax(Column(df_clean, "heart_rate")),
           min_sbp |-> SeqMin(Column(df_clean, "sbp")),
           max_sbp |-> SeqMax(Column(df_clean, "sbp")) ]

\* the summary taken from the filtered columns instead of the raw ones
raw_vitals_summary_filtered(df_clean) ==
    IF df_clean = << >>
    THEN [ min_spo2 |-> 100, max_hr |-> 60, min_sbp |-> 120, max_sbp |-> 120 ]
    ELSE [ min_spo2 |-> SeqMin(Column(df_clean, "spo2_clean")),
           max_hr |-> SeqMax(Column(df_clean, "heart_rate_clean")),
           min_sbp |-> SeqMin(Column(df_clean, "sbp")),
           max_sbp |-> SeqMax(Column(df_clean, "sbp")) ]

\* min_spo2, max_hr, min_sbp, max_sbp of predict
raw_vitals_summary(df_clean) ==
    IF df_clean = << >>
    THEN [ min_spo2 |-> 100, max_hr |-> 60, min_sbp |-> 120, max_sbp |-> 120 ]
    ELSE [ min_spo2 |-> SeqMin(Column(df_clean, "spo2")),
           max_hr |-> SeqMax(Column(df_clean, "heart_rate")),
           min_sbp |-> SeqMin(Column(df_clean, "sbp")),
           max_sbp |-> SeqMax(Column(df_clean, "sbp")) ]

\* a gate that remembers: once a request was overridden, every later one is
safety_override_sticky(v) ==
    IF served # << >> /\ served[Len(served)].response.safety_override
    THEN [ safety_triggered |-> TRUE, safety_score |-> 950 ]
    ELSE
    LET s0 == [ safety_triggered |-> FALSE, safety_score |-> 0 ]
        Hit(s, score) ==
            [ safety_triggered |-> TRUE, safety_score |-> Max(s.safety_score, score) ]
        s1 == IF v.min_spo2 < 90 THEN Hit(s0, 950)
              ELSE IF v.min_spo2 < 92 THEN Hit(s0, 800) ELSE s0
        s2 == IF v.max_hr > 140 THEN Hit(s1, 950)
              ELSE IF v.max_hr > 120 THEN Hit(s1, 750) ELSE s1
        s3 == IF v.min_sbp < 90 THEN Hit(s2, 950)
              ELSE IF v.min_sbp < 100 THEN Hit(s2, 750) ELSE s2
        s4 == IF v.max_sbp > 180 THEN Hit(s3, 900) ELSE s3
        s5 == IF v.min_spo2 < 94 /\ v.max_hr > 110 THEN Hit(s4, 850) ELSE s4
    IN  s5

\* the gate as one if/elif chain: the first matching rule sets the score
safety_override_first_match(v) ==
    IF v.min_spo2 < 90 THEN [ safety_triggered |-> TRUE, safety_score |-> 950 ]
    ELSE IF v.min_spo2 < 92 THEN [ safety_triggered |-> TRUE, safety_score |-> 800 ]
    ELSE IF v.max_hr > 140 THEN [ safety_triggered |-> TRUE, safety_score |-> 950 ]
    ELSE IF v.max_hr > 120 THEN [ safety_triggered |-> TRUE, safety_score |-> 750 ]
    ELSE IF v.min_sbp < 90 THEN [ safety_triggered |-> TRUE, safety_score |-> 950 ]
    ELSE IF v.min_sbp < 100 THEN [ safety_triggered |-> TRUE, safety_score |-> 750 ]
    ELSE IF v.max_sbp > 180 THEN [ safety_triggered |-> TRUE, safety_score |-> 900 ]
    ELSE IF v.min_spo2 < 94 /\ v.max_hr > 110
    THEN [ safety_triggered |-> TRUE, safety_score |-> 850 ]
    ELSE [ safety_triggered |-> FALSE, safety_score |-> 0 ]

\* the safety override of predict: five if / if-elif statements in turn,
\* each raising safety_score to at least its own score
safety_override(v) ==
    LET s0 == [ safety_triggered |-> FALSE, safety_score |-> 0 ]
        Hit(s, score) ==
            [ safety_triggered |-> TRUE, safety_score |-> Max(s.safety_score, score) ]
        s1 == IF v.min_spo2 < 90 THEN Hit(s0, 950)
              ELSE IF v.min_spo2 < 92 THEN Hit(s0, 800) ELSE s0
        s2 == IF v.max_hr > 140 THEN Hit(s1, 950)
              ELSE IF v.max_hr > 120 THEN Hit(s1, 750) ELSE s1
        s3 == IF v.min_sbp < 90 THEN Hit(s2, 950)
              ELSE IF v.min_sbp < 100 THEN Hit(s2, 750) ELSE s2
        s4 == IF v.max_sbp > 180 THEN Hit(s3, 900) ELSE s3
        s5 == IF v.min_spo2 < 94 /\ v.max_hr > 110 THEN Hit(s4, 850) ELSE s4
    IN  s5

\* extract_window_features on a batch of at most window_size rows: the
\* number of feature windows produced (none below 3 rows, else one)
WindowSize == 30
MinWindowRows == 3
extract_window_features(df_clean) ==
    IF df_clean = << >> THEN 0
    ELSE IF Min(WindowSize, Len(df_clean)) < MinWindowRows THEN 0
    ELSE 1

\* normalize on a one-row series, in tenths
normalize_single == 10

\* compute_risk_score on one feature window, in tenths of a point:
\* weights 0.5, 0.3, 0.2 on three components normalized to 1.0, scaled to
\* 0-100 and clipped
compute_risk_score_single ==
    Min(Max((5 * normalize_single + 3 * normalize_single
             + 2 * normalize_single) * 10, 0), 1000)

\* compute_risk_score's keyword defaults (confidence in tenths)
confidence_threshold == 5

min_persistence == 2

\* persistence satisfied by any raw alert in the window
rolling_alert_any(alert_raw) ==
    \E i \in 1..Len(alert_raw) : alert_raw[i]

\* rolling(window = min_persistence, min_periods = 1).sum() >=
\* min_persistence at the last row of a column of 0/1 flags
rolling_alert(alert_raw) ==
    LET n == Len(alert_raw)
        first == Max(1, n - min_persistence + 1)
    IN  Cardinality({ i \in first..n : alert_raw[i] }) >= min_persistence

\* the last row of compute_risk_score's frame for a request with one feature
\* window (risk_score.py lines 53-68)
compute_risk_score(anomaly_flag, confidence_mean) ==
    LET risk_score == compute_risk_score_single
        alert_raw == /\ risk_score > 500
                     /\ confidence_mean >= confidence_threshold
    IN  [ anomaly_flag |-> anomaly_flag,
          risk_score |-> risk_score,
          alert |-> rolling_alert(<< alert_raw >>) ]

\* mean confidence of a window: clean_vitals clips confidence to 0.3 .. 1.0
WindowConfidences == { 3, 10 }

Response(anomaly, risk, override) ==
    [ anomaly |-> anomaly, risk_score |-> risk, safety_override |-> override ]

\* raw samples: base values and values in every band of the gate's table
Samples ==
    { [ heart_rate |-> h, spo2 |-> s, sbp |-> 120 ] :
        h \in {70, 120, 140, 150}, s \in {86, 90, 92, 98} }
    \cup { [ heart_rate |-> 70, spo2 |-> 98, sbp |-> b ] : b \in {86, 90, 190} }

Batches == UNION { [ 1..n -> Samples ] : n \in 0..MaxBatch }

InitGate ==
    /\ batch \in Batches
    /\ response = NoResponse
    /\ model_invoked = FALSE
    /\ latest = NoLatest
    /\ served = << >>
    /\ IdleRun
    /\ IdleThreads
    /\ buffer_size = DefaultBufferSize
    /\ recent_alerts = << >>
    /\ pushed = << >>
    /\ returned = << >>
    /\ critical_override = TRUE
    /\ DefaultConfig
    /\ IdleScorer
    /\ pc = "request"

\* one answered request
Served(b, r) == [ batch |-> b, response |-> r ]

GateFrame ==
    UNCHANGED << frame, threads, buffer_size, recent_alerts, min_confidence,
                 min_abnormal_signals, motion_threshold, critical_override,
                 features, anomaly_score, confidence, decision, pushed,
                 returned, log, batch >>

\* predict returning at the safety override (app.py lines 109-116)
PredictOverride ==
    LET gate == safety_override(raw_vitals_summary(clean_vitals(batch)))
    IN  /\ pc = "request"
        /\ gate.safety_triggered
        /\ response' = Response(TRUE, gate.safety_score, TRUE)
        /\ model_invoked' = FALSE
        /\ latest' = latest
        /\ served' = Append(served, Served(batch, response'))
        /\ pc' = "responded"
        /\ GateFrame

\* predict returning the safe default, no feature window (lines 119-129)
PredictNoFeatures ==
    LET df_clean == clean_vitals(batch)
        gate == safety_override(raw_vitals_summary(df_clean))
    IN  /\ pc = "request"
        /\ ~gate.safety_triggered
        /\ extract_window_features(df_clean) = 0
        /\ response' = Response(FALSE, 0, FALSE)
        /\ model_invoked' = FALSE
        /\ latest' = latest
        /\ served' = Append(served, Served(batch, response'))
        /\ pc' = "responded"
        /\ GateFrame

\* predict returning the model's answer (lines 131-142); the anomaly model
\* is an external collaborator, its flag is any boolean; the window's mean
\* confidence depends on the motion column, which the gate does not read
PredictModel(anomaly_flag, confidence_mean) ==
    LET df_clean == clean_vitals(batch)
        gate == safety_override(raw_vitals_summary(df_clean))
        risk_out == compute_risk_score(anomaly_flag, confidence_mean)
    IN  /\ pc = "request"
        /\ ~gate.safety_triggered
        /\ extract_window_features(df_clean) > 0
        /\ latest' = risk_out
        /\ response' = Response(risk_out.anomaly_flag, risk_out.risk_score,
                                FALSE)
        /\ model_invoked' = TRUE
        /\ served' = Append(served, Served(batch, response'))
        /\ pc' = "responded"
        /\ GateFrame

NextGate ==
    \/ PredictOverride
    \/ PredictNoFeatures
    \/ \E anomaly_flag \in BOOLEAN, confidence_mean \in WindowConfidences :
           PredictModel(anomaly_flag, confidence_mean)

SpecGate == InitGate /\ [][NextGate]_vars

(***************************************************************************)
(* Properties of the Safety Override Gate (SpecGate)                       *)
(***************************************************************************)
\* the raw-vitals summary of the request, straight from the request's rows
RequestSummary ==
    IF batch = << >>
    THEN [ min_spo2 |-> 100, max_hr |-> 60, min_sbp |-> 120, max_sbp |-> 120 ]
    ELSE [ min_spo2 |-> SeqMin([ i \in 1..Len(batch) |-> batch[i].spo2 ]),
           max_hr |-> SeqMax([ i \in 1..Len(batch) |-> batch[i].heart_rate ]),
           min_sbp |-> SeqMin([ i \in 1..Len(batch) |-> batch[i].sbp ]),
           max_sbp |-> SeqMax([ i \in 1..Len(batch) |-> batch[i].sbp ]) ]

\* the scores of the rules of the table that hold for a summary
TriggeredScores(v) ==
    (IF v.min_spo2 < 90 THEN {950} ELSE {})
    \cup (IF 90 <= v.min_spo2 /\ v.min_spo2 < 92 THEN {800} ELSE {})
    \cup (IF v.max_hr > 140 THEN {950} ELSE {})
    \cup (IF 120 < v.max_hr /\ v.max_hr <= 140 THEN {750} ELSE {})
    \cup (IF v.min_sbp < 90 THEN {950} ELSE {})
    \cup (IF 90 <= v.min_sbp /\ v.min_sbp < 100 THEN {750} ELSE {})
    \cup (IF v.max_sbp > 180 THEN {900} ELSE {})
    \cup (IF v.min_spo2 < 94 /\ v.max_hr > 110 THEN {850} ELSE {})

SetMax(S) == CHOOSE x \in S : \A y \in S : x >= y

\* C1: the gate triggers iff at least one of the eight table conditions
\* holds for the request's raw-vitals summary; when it triggers the response
\* has anomaly = true, safety_override = true and risk_score = the maximum
\* of the scores of all triggered rules, and neither the anomaly model nor
\* the risk scoring was invoked.
C1_GateTable ==
    pc = "responded" =>
        LET scores == TriggeredScores(RequestSummary)
        IN  /\ response.safety_override <=> scores # {}
            /\ scores # {} =>
                  /\ response.anomaly
                  /\ response.risk_score = SetMax(scores)
                  /\ ~model_invoked

\* C1 witness: a summary whose first matching rule (90 <= min_spo2 < 92,
\* score 80) is not its highest (max_hr > 140, score 95)
C1_Witness ==
    /\ pc = "responded"
    /\ RequestSummary.min_spo2 >= 90 /\ RequestSummary.min_spo2 < 92
    /\ RequestSummary.max_hr > 140
    /\ response = Response(TRUE, 950, TRUE)

\* C2: a batch in which some raw sample has spo2 < 90, heart_rate > 140 or
\* sbp < 90 is answered anomaly = true, safety_override = true,
\* risk_score = 95, whatever the cleaning makes of that sample.
C2_CriticalSampleAlerts ==
    (pc = "responded"
        /\ \E i \in 1..Len(batch) :
              \/ batch[i].spo2 < 90
              \/ batch[i].heart_rate > 140
              \/ batch[i].sbp < 90)
    => response = Response(TRUE, 950, TRUE)

\* C2 witness: a single hypoxic sample between two normal ones, which the
\* rolling median removes from the cleaned signal
C2_Witness ==
    /\ pc = "responded"
    /\ Len(batch) = 3
    /\ batch[2].spo2 < 90
    /\ \A i \in {1, 3} :
          batch[i].spo2 >= 94 /\ batch[i].heart_rate <= 110 /\ batch[i].sbp = 120
    /\ batch[2].heart_rate <= 110 /\ batch[2].sbp = 120
    /\ \A i \in 1..3 : clean_vitals(batch)[i].spo2_clean >= 94
    /\ response = Response(TRUE, 950, TRUE)

(***************************************************************************)
(* Properties of the cascade (SpecCascade), stated on the window's fields  *)
(***************************************************************************)
Has(f, k) == k \in DOMAIN f

FeatureNames ==
    { "spo2_mean", "spo2_min", "hr_mean", "hr_max", "sbp_mean", "dbp_mean",
      "spo2_slope", "hr_slope", "motion_std", "motion_max" }

\* a window that carries every field the scorer reads
Complete(f) == DOMAIN f = FeatureNames

\* one of the three implausibility rules holds of the fields of the window
ImplausibleByRule(f) ==
    \/ Has(f, "hr_mean") /\ Has(f, "spo2_mean")
          /\ f["hr_mean"] < 50 /\ f["spo2_mean"] > 95
    \/ Has(f, "hr_mean") /\ Has(f, "spo2_mean")
          /\ f["spo2_mean"] < 90 /\ f["hr_mean"] < 80
    \/ Has(f, "sbp_mean") /\ Has(f, "dbp_mean")
          /\ 0 < f["sbp_mean"] /\ f["sbp_mean"] < f["dbp_mean"]

\* one of the four critical conditions holds of the fields of the window
CriticalByRule(f) ==
    \/ Has(f, "spo2_min") /\ f["spo2_min"] < 88
    \/ Has(f, "hr_max") /\ f["hr_max"] > 140
    \/ Has(f, "sbp_mean") /\ f["sbp_mean"] < 90
    \/ Has(f, "spo2_mean") /\ Has(f, "hr_mean")
          /\ f["spo2_mean"] < 92 /\ f["hr_mean"] > 120

\* how many of the seven abnormal-signal conditions hold of a complete window
AbnormalCount(f) ==
    Cardinality({ n \in 1..7 :
        \/ n = 1 /\ f["spo2_mean"] < 92
        \/ n = 2 /\ f["spo2_min"] < 88
        \/ n = 3 /\ f["hr_mean"] > 120
        \/ n = 4 /\ f["hr_max"] > 140
        \/ n = 5 /\ f["sbp_mean"] < 100
        \/ n = 6 /\ f["spo2_slope"] < -5
        \/ n = 7 /\ f["hr_slope"] > 5 })

HighMotion(f) == f["motion_std"] > 5 \/ f["motion_max"] > 10

CompositeScore(a, count) == Min(100 * a + 10 * Min(5 * count, 20), 1000)

TemporalStages == { "confirmed_alert", "awaiting_confirmation" }

\* the stage and risk_score of the first rule, in the order plausibility,
\* critical, signal count, motion, confidence, temporal, whose condition
\* holds of a complete window ("temporal" stands for either temporal stage)
FirstRule(f, a, c) ==
    IF ImplausibleByRule(f) THEN << "plausibility_failed", 0 >>
    ELSE IF CriticalByRule(f) THEN << "critical_override", 950 + 5 * a >>
    ELSE IF AbnormalCount(f) < 2 THEN << "insufficient_signals", 50 * a >>
    ELSE IF HighMotion(f) THEN << "motion_artifact", 40 * a >>
    ELSE IF c < 7 THEN << "low_confidence", 60 * a >>
    ELSE << "temporal", CompositeScore(a, AbnormalCount(f)) >>

\* C3 as stated: every window with spo2_min < 88 returns critical_override,
\* alert = true and risk_score >= 95 (critical override enabled), whatever
\* its other fields, the confidence and the buffer.
C3_Original ==
    (pc = "returned" /\ critical_override
        /\ Has(features, "spo2_min") /\ features["spo2_min"] < 88)
    => /\ decision.stage = "critical_override"
       /\ decision.alert
       /\ decision.risk_score >= 950

\* C3 amended: every complete window with spo2_min < 88 that satisfies none
\* of the three implausibility rules returns critical_override, alert = true
\* and risk_score >= 95 when critical override is enabled, whatever the
\* confidence, the motion features and the buffer.
C3_CriticalPrecedence ==
    (pc = "returned" /\ critical_override /\ Complete(features)
        /\ features["spo2_min"] < 88 /\ ~ImplausibleByRule(features))
    => /\ decision.stage = "critical_override"
       /\ decision.alert
       /\ decision.risk_score >= 950

\* C3 witness: a plausible hypoxemic window in high motion, with low
\* confidence and a buffer holding a false entry, answered critical_override
C3_Witness ==
    /\ pc = "returned" /\ critical_override /\ Complete(features)
    /\ features["spo2_min"] < 88 /\ ~ImplausibleByRule(features)
    /\ features["hr_max"] <= 140 /\ features["sbp_mean"] >= 90
    /\ HighMotion(features)
    /\ confidence < min_confidence
    /\ recent_alerts # << >> /\ ~recent_alerts[1]
    /\ decision.stage = "critical_override"

\* C4: a window satisfying one of the three implausibility rules returns
\* risk_score = 0, alert = false and stage plausibility_failed, never
\* critical_override, even when its other fields satisfy a critical
\* condition, whatever the buffer holds (and the buffer is left as it was).
C4_PlausibilityFirst ==
    [][ (pc = "call" /\ pc' = "returned" /\ ImplausibleByRule(features))
        => /\ decision'.risk_score = 0
           /\ ~decision'.alert
           /\ decision'.stage = "plausibility_failed"
           /\ recent_alerts' = recent_alerts ]_vars

\* C4 witness: hypoxia without tachycardia (spo2_mean < 90, hr_mean < 80)
\* in a window that also has spo2_min < 88, answered plausibility_failed
C4_Witness ==
    /\ pc = "returned" /\ critical_override /\ Complete(features)
    /\ features["spo2_mean"] < 90 /\ features["hr_mean"] < 80
    /\ features["hr_mean"] >= 50
    /\ features["sbp_mean"] >= features["dbp_mean"]
    /\ features["spo2_min"] < 88
    /\ recent_alerts # << >>
    /\ decision.stage = "plausibility_failed"
    /\ decision.risk_score = 0 /\ ~decision.alert

\* C5: for every complete window, anomaly_score, confidence and buffer
\* (default thresholds, critical override enabled) the decision's stage and
\* risk_score are those of the first rule whose condition holds, in the order
\* plausibility, critical, signal count, motion, confidence, temporal:
\* 0, 95+5a, 50a, 40a, 60a, min(100a + min(5*count, 20), 100).
C5_OrderedCascade ==
    (pc = "returned" /\ critical_override /\ Complete(features))
    => LET first == FirstRule(features, anomaly_score, confidence)
       IN  /\ decision.risk_score = first[2]
           /\ IF first[1] = "temporal"
              THEN decision.stage \in TemporalStages
              ELSE decision.stage = first[1]

\* C5 witness: a window both in high motion and of low confidence, with
\* enough abnormal signals, answered motion_artifact
C5_Witness ==
    /\ pc = "returned" /\ critical_override /\ Complete(features)
    /\ ~ImplausibleByRule(features) /\ ~CriticalByRule(features)
    /\ AbnormalCount(features) >= 2
    /\ HighMotion(features)
    /\ confidence < 7
    /\ decision.stage = "motion_artifact"
    /\ decision.risk_score = 40 * anomaly_score

\* C6: with critical override enabled, a complete window that satisfies no
\* implausibility rule and at least one of the four critical conditions
\* yields alert = true, stage critical_override and risk_score = 95 + 5a,
\* within [95, 100], and the evaluation leaves the temporal buffer as it was.
C6_CriticalBypass ==
    [][ (pc = "call" /\ pc' = "returned" /\ critical_override
            /\ Complete(features) /\ ~ImplausibleByRule(features)
            /\ CriticalByRule(features))
        => /\ decision'.alert
           /\ decision'.stage = "critical_override"
           /\ decision'.risk_score = 950 + 5 * anomaly_score
           /\ decision'.risk_score >= 950 /\ decision'.risk_score <= 1000
           /\ decision'.buffer_calls = << >>
           /\ recent_alerts' = recent_alerts ]_vars

\* C6 witness: combined cardiopulmonary stress alone (spo2_mean < 92 with
\* hr_mean > 120), in high motion with low confidence and a buffer that is
\* not all true, answered critical_override with the buffer untouched
C6_Witness ==
    /\ pc = "returned" /\ critical_override /\ Complete(features)
    /\ ~ImplausibleByRule(features)
    /\ features["spo2_mean"] < 92 /\ features["hr_mean"] > 120
    /\ features["spo2_min"] >= 88 /\ features["hr_max"] <= 140
    /\ features["sbp_mean"] >= 90
    /\ HighMotion(features) /\ confidence < 7
    /\ recent_alerts # << >> /\ ~recent_alerts[1]
    /\ pushed = << >>
    /\ decision.stage = "critical_override" /\ decision.alert

(***************************************************************************)
(* Properties of TemporalAlertBuffer (SpecBuffer)                          *)
(***************************************************************************)
\* the i-th value pushed since creation or reset completes a run of n
\* consecutive true values
LastNAllTrue(seq, i, n) ==
    /\ n >= 0
    /\ i >= n
    /\ \A j \in (i - n + 1)..i : seq[j]

\* the last k elements of a sequence, in order
LastK(seq, k) == SubSeq(seq, Len(seq) - k + 1, Len(seq))

\* C7: should_alert returns true iff, after pushing and evicting, the
\* buffer holds exactly N entries and all are true, i.e. iff the last N
\* values pushed since creation or reset were all true; with N = 3 the
\* pushes [true,true,false,true,true,true] return true only on the 6th call.
C7_ShouldAlertIff ==
    /\ Len(returned) = Len(pushed)
    /\ \A i \in 1..Len(returned) :
          returned[i] <=> LastNAllTrue(pushed, i, buffer_size)
    /\ returned # << >> =>
          (returned[Len(returned)]
              <=> (Len(recent_alerts) = buffer_size /\ AllTrue(recent_alerts)))
    /\ (buffer_size = 3 /\ pushed = << TRUE, TRUE, FALSE, TRUE, TRUE, TRUE >>)
          => returned = << FALSE, FALSE, FALSE, FALSE, FALSE, TRUE >>

\* C7 witness: the six pushes of the example on a buffer of capacity 3
C7_Witness ==
    /\ pc = "buffer"
    /\ buffer_size = 3
    /\ pushed = << TRUE, TRUE, FALSE, TRUE, TRUE, TRUE >>
    /\ returned = << FALSE, FALSE, FALSE, FALSE, FALSE, TRUE >>

\* C10: after any sequence of should_alert and reset calls on a buffer of
\* capacity N >= 0, the buffer holds at most N entries and they are the most
\* recent values pushed since creation or the last reset, in push order; in
\* particular the buffer is empty right after a reset.
C10_FifoBounded ==
    buffer_size >= 0 =>
        /\ Len(recent_alerts) <= buffer_size
        /\ recent_alerts = LastK(pushed, Min(buffer_size, Len(pushed)))

\* C10 witness: more pushes than the capacity, the buffer exactly full
C10_Witness ==
    /\ pc = "buffer"
    /\ buffer_size >= 2
    /\ Len(pushed) > buffer_size + 1
    /\ Len(recent_alerts) = buffer_size
    /\ pushed[1] # pushed[Len(pushed)]

(***************************************************************************)
(* Properties of a scoring session (Spec)                                  *)
(***************************************************************************)
\* the k-th window since creation or reset reached the composite stage
\* with a risk_score above 70
CompositeAbove70(k) ==
    /\ log[k].stage \in TemporalStages
    /\ log[k].risk_score > 700

\* C8: on a fresh or just reset scorer with temporal_buffer_size = 3, three
\* consecutive windows that each reach the composite stage with
\* risk_score > 70 are answered awaiting_confirmation with alert = false,
\* the same again, then confirmed_alert with alert = true.
C8_ThirdWindowConfirms ==
    buffer_size = 3 =>
        \A k \in 1..Min(3, Len(log)) :
            (\A i \in 1..k : CompositeAbove70(i)) =>
                IF k < 3
                THEN log[k].stage = "awaiting_confirmation" /\ ~log[k].alert
                ELSE log[k].stage = "confirmed_alert" /\ log[k].alert

\* C8 witness: three such windows evaluated, the third confirmed
C8_Witness ==
    /\ pc = "session"
    /\ buffer_size = 3
    /\ Len(log) = 3
    /\ \A i \in 1..3 : CompositeAbove70(i)
    /\ log[1].stage = "awaiting_confirmation" /\ ~log[1].alert
    /\ log[2].stage = "awaiting_confirmation" /\ ~log[2].alert
    /\ log[3].stage = "confirmed_alert" /\ log[3].alert

\* C9 as stated: a window is answered confirmed_alert only if it and the
\* N-1 windows evaluated immediately before it in the same session each had
\* a composite risk_score above 70.
C9_SustainedOverConsecutiveWindows ==
    \A k \in 1..Len(log) :
        log[k].stage = "confirmed_alert" =>
            /\ k >= buffer_size
            /\ \A i \in (k - buffer_size + 1)..k : CompositeAbove70(i)

\* ---------------------------------------------------------------------
\* A session on a scorer built with any constructor arguments: __init__
\* stores temporal_buffer_size and critical_override as given
\* (enhanced_risk_score.py lines 48-68, 14-20)
\* ---------------------------------------------------------------------
BufferSizes == (-1)..MaxBufferSize

InitConfig ==
    /\ buffer_size \in BufferSizes
    /\ critical_override \in BOOLEAN
    /\ recent_alerts = << >>
    /\ pushed = << >>
    /\ returned = << >>
    /\ DefaultConfig
    /\ IdleScorer
    /\ IdleGate
    /\ IdleRun
    /\ IdleThreads
    /\ pc = "session"

SpecConfig == InitConfig /\ [][Next]_vars

\* C11 as stated: a scorer with a negative temporal_buffer_size is never
\* constructed, so every window evaluated in a session was evaluated under a
\* buffer size of at least 0.
C11_InvalidConfigNeverEvaluates ==
    Len(log) > 0 => buffer_size >= 0

\* ---------------------------------------------------------------------
\* C12: for every window, every anomaly_score in [0,1], every confidence,
\* buffer and configuration, the risk_score returned by
\* calculate_risk_score lies in [0,100] (0..1000 tenths), whatever the
\* stage that answered.
\* ---------------------------------------------------------------------
C12_RiskScoreInRange ==
    pc = "returned" =>
        /\ decision.risk_score >= 0
        /\ decision.risk_score <= 1000

\* C12 witness: a window answered at the temporal stage whose base risk
\* plus signal boost exceeds 100 and is returned as exactly 100
C12_Witness ==
    /\ pc = "returned"
    /\ decision.stage \in TemporalStages
    /\ 100 * anomaly_score + 10 * Min(5 * Len(decision.abnormal_signals), 20)
          > 1000
    /\ decision.risk_score = 1000

\* ---------------------------------------------------------------------
\* C13 as stated: the scenario window {spo2_mean=91, spo2_min=88,
\* hr_mean=110, hr_max=125, sbp_mean=105, motion_std=0.8} with
\* anomaly_score 0.7 is answered motion_artifact with alert = false and
\* risk_score = 0.7 * 40.
\* ---------------------------------------------------------------------
C13_Original ==
    (pc = "returned" /\ features = test_features_motion /\ anomaly_score = 7)
        => /\ decision.stage = "motion_artifact"
           /\ ~decision.alert
           /\ decision.risk_score = 280

\* C13 amended: only one of the seven abnormal-signal conditions holds of
\* that window (spo2_mean < 92; spo2_min = 88 is not below 88), so it is
\* answered insufficient_signals with alert = false and risk_score
\* 0.7 * 50 = 35 before the motion stage is reached; the buffer is not
\* touched.
C13_ScenarioInsufficientSignals ==
    (pc = "returned" /\ features = test_features_motion /\ anomaly_score = 7)
        => /\ decision.stage = "insufficient_signals"
           /\ ~decision.alert
           /\ decision.risk_score = 350
           /\ decision.abnormal_signals = << "spo2_low" >>
           /\ ~decision.high_motion
           /\ decision.buffer_calls = << >>

\* C13 witness: the scenario evaluated as the test run does (confidence 0.7)
C13_Witness ==
    /\ pc = "returned"
    /\ features = test_features_motion
    /\ anomaly_score = 7
    /\ confidence = 7
    /\ decision.stage = "insufficient_signals"
    /\ decision.risk_score = 350

\* ---------------------------------------------------------------------
\* C14: a plausible, non-critical window for which fewer than
\* min_abnormal_signals (2) of the seven conditions hold is answered
\* insufficient_signals with alert = false and risk_score = 50 *
\* anomaly_score, whatever the motion, the confidence and the buffer, and
\* the buffer is left as it was; so is the window {spo2_mean=94,
\* spo2_min=93, hr_mean=85, hr_max=95, sbp_mean=120, motion_std=0.1} with
\* anomaly_score 0.6 and confidence 0.8 (risk_score 30).
\* ---------------------------------------------------------------------
C14_InsufficientSignals ==
    pc = "returned" =>
        /\ (/\ Complete(features)
            /\ ~ImplausibleByRule(features)
            /\ ~CriticalByRule(features)
            /\ AbnormalCount(features) < DefaultMinAbnormalSignals)
             => /\ decision.stage = "insufficient_signals"
                /\ ~decision.alert
                /\ decision.risk_score = 50 * anomaly_score
                /\ decision.buffer_calls = << >>
        /\ (features = test_features_single /\ anomaly_score = 6
                /\ confidence = 8)
             => /\ decision.stage = "insufficient_signals"
                /\ ~decision.alert
                /\ decision.risk_score = 300
                /\ decision.buffer_calls = << >>

\* C14 witness: a single abnormal signal in a moving vehicle, at low
\* confidence, with a buffer full of raw alerts
C14_Witness ==
    /\ pc = "returned"
    /\ Complete(features)
    /\ ~ImplausibleByRule(features)
    /\ ~CriticalByRule(features)
    /\ AbnormalCount(features) = 1
    /\ HighMotion(features)
    /\ confidence < min_confidence
    /\ anomaly_score = 10
    /\ Len(recent_alerts) = 2 /\ AllTrue(recent_alerts)
    /\ decision.stage = "insufficient_signals"
    /\ decision.risk_score = 500

\* ---------------------------------------------------------------------
\* C15 as stated: an absent spo2_mean is read as 100 and an absent hr_mean
\* as 70 by every stage, so the decision for a window is the decision for
\* the same window with the absent fields supplied with those values.
\* ---------------------------------------------------------------------
DocumentedDefaults == [ spo2_mean |-> 100, hr_mean |-> 70 ]

WithDefaults(f) == Merge(f, DocumentedDefaults)

C15_AbsentEqualsDefault ==
    [][ (pc = "call" /\ pc' = "returned") =>
            decision' = calculate_risk_score(WithDefaults(features),
                                             anomaly_score, confidence,
                                             recent_alerts) ]_vars

(***************************************************************************)
(* SpecSparse: one calculate_risk_score call on a window with any subset   *)
(* of its fields absent                                                    *)
(***************************************************************************)
\* a window in which every condition the scorer tests holds
AllAbnormalWindow ==
    [ spo2_mean |-> 89, spo2_min |-> 85, hr_mean |-> 130, hr_max |-> 150,
      sbp_mean |-> 85, dbp_mean |-> 80, spo2_slope |-> -10, hr_slope |-> 10,
      motion_std |-> 8, motion_max |-> 15 ]

\* the dict f without the keys outside ks
Restrict(f, ks) == [ k \in ks |-> f[k] ]

SparseWindows ==
    { Restrict(b, ks) : b \in { AllAbnormalWindow, NormalWindow },
                        ks \in SUBSET FeatureNames }

InitSparse ==
    /\ buffer_size \in 0..MaxCascadeBuffer
    /\ recent_alerts \in Buffers(buffer_size)
    /\ pushed = << >>
    /\ returned = << >>
    /\ critical_override \in BOOLEAN
    /\ DefaultConfig
    /\ features \in SparseWindows
    /\ anomaly_score \in AnomalyScores
    /\ confidence \in Confidences
    /\ decision = NoDecision
    /\ log = << >>
    /\ IdleGate
    /\ IdleRun
    /\ IdleThreads
    /\ pc = "call"

SpecSparse == InitSparse /\ [][NextCascade]_vars

\* the abnormal-signal condition named by a tag holds of fields that are
\* present in the window
SignalHolds(f, tag) ==
    \/ tag = "spo2_low" /\ Has(f, "spo2_mean") /\ f["spo2_mean"] < 92
    \/ tag = "spo2_critical" /\ Has(f, "spo2_min") /\ f["spo2_min"] < 88
    \/ tag = "hr_high" /\ Has(f, "hr_mean") /\ f["hr_mean"] > 120
    \/ tag = "hr_critical" /\ Has(f, "hr_max") /\ f["hr_max"] > 140
    \/ tag = "sbp_low" /\ Has(f, "sbp_mean") /\ f["sbp_mean"] < 100
    \/ tag = "spo2_dropping" /\ Has(f, "spo2_slope") /\ f["spo2_slope"] < -5
    \/ tag = "hr_rising" /\ Has(f, "hr_slope") /\ f["hr_slope"] > 5

\* ---------------------------------------------------------------------
\* C16: absent data never manufactures an alert. A window is found
\* critical only if a critical condition holds of fields it carries, every
\* abnormal signal counted for it holds of fields it carries, an alert is
\* raised only for a window that carries a critical condition or at least
\* min_abnormal_signals abnormal ones, and the window with every field
\* absent is answered insufficient_signals with alert = false and
\* risk_score = 50 * anomaly_score, buffer untouched, for every score,
\* confidence and buffer.
\* ---------------------------------------------------------------------
C16_AbsentNeverAlerts ==
    pc = "returned" =>
        LET signals == count_abnormal_signals(features)
        IN  /\ check_critical_condition(features).is_critical
                => CriticalByRule(features)
            /\ decision.critical => CriticalByRule(features)
            /\ \A i \in 1..Len(signals) : SignalHolds(features, signals[i])
            /\ \A i \in 1..Len(decision.abnormal_signals) :
                   SignalHolds(features, decision.abnormal_signals[i])
            /\ decision.alert =>
                   \/ CriticalByRule(features)
                   \/ Cardinality({ k \in DOMAIN features :
                          \E i \in 1..Len(signals) :
                              SignalHolds(Restrict(features, {k}), signals[i]) })
                        >= min_abnormal_signals
            /\ features = NoWindow =>
                   /\ decision.stage = "insufficient_signals"
                   /\ ~decision.alert
                   /\ decision.risk_score = 50 * anomaly_score
                   /\ decision.buffer_calls = << >>

\* C16 witness: the window with every field absent, the highest score and
\* a buffer full of raw alerts, answered insufficient_signals
C16_Witness ==
    /\ pc = "returned"
    /\ features = NoWindow
    /\ anomaly_score = 10
    /\ confidence = 7
    /\ Len(recent_alerts) = 2 /\ AllTrue(recent_alerts)
    /\ decision.stage = "insufficient_signals"
    /\ ~decision.alert
    /\ decision.risk_score = 500

\* ---------------------------------------------------------------------
\* C20: a /predict request whose batch is empty, or has fewer than 3 rows
\* and triggers no safety rule, is answered anomaly = false, risk_score = 0,
\* safety_override = false: for an empty batch the gate reads the summary
\* (100, 60, 120, 120), no feature window is produced, and neither the
\* anomaly model nor compute_risk_score is invoked.
\* ---------------------------------------------------------------------
C20_NoWindowSafeDefault ==
    (/\ pc = "responded"
     /\ \/ Len(batch) = 0
        \/ Len(batch) < MinWindowRows /\ TriggeredScores(RequestSummary) = {})
        => /\ batch = << >> =>
                 raw_vitals_summary(clean_vitals(batch))
                     = [ min_spo2 |-> 100, max_hr |-> 60, min_sbp |-> 120,
                         max_sbp |-> 120 ]
           /\ ~safety_override(raw_vitals_summary(clean_vitals(batch)))
                  .safety_triggered
           /\ extract_window_features(clean_vitals(batch)) = 0
           /\ ~model_invoked
           /\ latest = NoLatest
           /\ response = Response(FALSE, 0, FALSE)

\* C20 witness: the empty batch answered with the safe default
C20_Witness ==
    /\ pc = "responded"
    /\ batch = << >>
    /\ response = Response(FALSE, 0, FALSE)
    /\ ~model_invoked

\* ---------------------------------------------------------------------
\* C19 as stated: in the /predict response safety_override is true exactly
\* when the gate triggered, and when a feature window was produced the
\* response's anomaly and risk_score are the alert and the risk_score the
\* risk scoring computed for the latest window of the request.
\* ---------------------------------------------------------------------
C19_ResponseIsEngineDecision ==
    pc = "responded" =>
        /\ response.safety_override
              <=> safety_override(raw_vitals_summary(clean_vitals(batch)))
                      .safety_triggered
        /\ model_invoked =>
              /\ response.anomaly = latest.alert
              /\ response.risk_score = latest.risk_score

(***************************************************************************)
(* SpecRun: one apply_enhanced_risk_scoring call; the frames hold windows  *)
(* of up to two patients, one step per iteration of its loop               *)
(***************************************************************************)
MaxRows == 3

Patients == { "A", "B" }

RunWindows ==
    { NormalWindow,
      \* hypoxemia
      [ NormalWindow EXCEPT !.spo2_mean = 89, !.spo2_min = 85, !.hr_mean = 110 ],
      \* two abnormal signals, not critical
      [ NormalWindow EXCEPT !.spo2_mean = 91, !.hr_mean = 110, !.sbp_mean = 95 ] }

\* rows of df_predictions, with or without a confidence column
PredRows(with_confidence) ==
    { Merge([ anomaly_score |-> a ],
            IF with_confidence THEN [ confidence |-> 7 ] ELSE NoWindow) :
        a \in SessionScores }

\* row idx of df_features and of df_predictions, and the patient it is of
RunRows(with_confidence) ==
    [ patient : Patients, features : RunWindows,
      pred : PredRows(with_confidence) ]

InitRun ==
    /\ \E with_confidence \in BOOLEAN :
          frame \in UNION { [ 1..n -> RunRows(with_confidence) ] :
                              n \in 0..MaxRows }
    \* scorer = EnhancedRiskScorer(temporal_buffer_size, ...) (lines 301-305)
    /\ buffer_size \in 1..MaxBufferSize
    /\ recent_alerts = << >>
    /\ pushed = << >>
    /\ returned = << >>
    /\ critical_override = TRUE
    /\ DefaultConfig
    /\ IdleScorer
    /\ IdleGate
    /\ IdleThreads
    /\ pc = "run"

\* one iteration of the loop of apply_enhanced_risk_scoring (lines 309-330)
ScoreRow ==
    /\ pc = "run"
    /\ Len(log) < Len(frame)
    /\ LET idx == Len(log) + 1
           pred_row == frame[idx].pred
       IN  /\ features' = frame[idx].features
           /\ anomaly_score' = Get(pred_row, "anomaly_score", 5)
           /\ confidence' = Get(pred_row, "confidence", 5)
    /\ decision' = calculate_risk_score(features', anomaly_score',
                                        confidence', recent_alerts)
    /\ recent_alerts' = decision'.recent_alerts
    /\ pushed' = pushed \o decision'.buffer_calls
    /\ returned' = IF decision'.buffer_calls = << >>
                   THEN returned ELSE Append(returned, decision'.buffered)
    /\ log' = Append(log, LogEntry(decision'))
    /\ UNCHANGED << latest, served, frame, threads, buffer_size, min_confidence,
                    min_abnormal_signals, motion_threshold, critical_override,
                    batch, response, model_invoked, pc >>

NextRun == ScoreRow

SpecRun == InitRun /\ [][NextRun]_vars

\* the rows 1..k of the frames that are of the patient of row k
OwnRows(k) ==
    LET SamePatient(r) == r.patient = frame[k].patient
    IN  SelectSeq(SubSeq(frame, 1, k), SamePatient)

\* the decision for the last of some rows scored in turn on a scorer of
\* their own, starting from an empty buffer
RECURSIVE DecisionAfter(_)
DecisionAfter(rows) ==
    LET n == Len(rows)
        before == IF n = 1 THEN << >>
                  ELSE DecisionAfter(SubSeq(rows, 1, n - 1)).recent_alerts
    IN  calculate_risk_score(rows[n].features,
                             Get(rows[n].pred, "anomaly_score", 5),
                             Get(rows[n].pred, "confidence", 5), before)

\* ---------------------------------------------------------------------
\* C17 as stated: the decision for a patient's window depends only on that
\* window and on that patient's earlier windows: every row of one
\* apply_enhanced_risk_scoring run is answered as it would be on a scorer
\* that had seen only the earlier rows of the same patient.
\* ---------------------------------------------------------------------
C17_PerPatientTemporalState ==
    pc = "run" =>
        \A k \in 1..Len(log) :
            log[k] = LogEntry(DecisionAfter(OwnRows(k)))

(***************************************************************************)
(* SpecThreads: after some calls in turn, two threads call should_alert on *)
(* the same TemporalAlertBuffer. The method takes no lock (lines 22-36),   *)
(* so a thread switch may fall between any two of its statements.          *)
(***************************************************************************)
ThreadIds == { 1, 2 }

InitThreads ==
    /\ buffer_size \in 1..MaxBufferSize
    /\ recent_alerts = << >>
    /\ pushed = << >>
    /\ returned = << >>
    /\ critical_override = TRUE
    /\ DefaultConfig
    /\ IdleScorer
    /\ IdleGate
    /\ IdleRun
    /\ IdleThreads
    /\ pc = "buffer"

ThreadFrame ==
    UNCHANGED << latest, served, frame, buffer_size, min_confidence,
                 min_abnormal_signals, motion_threshold, critical_override,
                 features, anomaly_score, confidence, decision, log, batch,
                 response, model_invoked >>

\* both threads enter should_alert(current_prediction)
Spawn(p1, p2) ==
    /\ pc = "buffer"
    /\ threads' = << [ pc |-> "append", current_prediction |-> p1,
                       result |-> FALSE ],
                     [ pc |-> "append", current_prediction |-> p2,
                       result |-> FALSE ] >>
    /\ pc' = "threads"
    /\ UNCHANGED << recent_alerts, pushed, returned >>
    /\ ThreadFrame

\* self.recent_alerts.append(current_prediction)  (line 26)
ThreadAppend(t) ==
    /\ pc = "threads" /\ threads[t].pc = "append"
    /\ recent_alerts' = Append(recent_alerts, threads[t].current_prediction)
    /\ pushed' = Append(pushed, threads[t].current_prediction)
    /\ threads' = [ threads EXCEPT ![t].pc = "test" ]
    /\ UNCHANGED << returned, pc >>
    /\ ThreadFrame

\* if len(self.recent_alerts) > self.buffer_size  (line 29)
ThreadTest(t) ==
    /\ pc = "threads" /\ threads[t].pc = "test"
    /\ threads' = [ threads EXCEPT ![t].pc =
                      IF Len(recent_alerts) > buffer_size
                      THEN "pop" ELSE "check" ]
    /\ UNCHANGED << recent_alerts, pushed, returned, pc >>
    /\ ThreadFrame

\* self.recent_alerts.pop(0)  (line 30)
ThreadPop(t) ==
    /\ pc = "threads" /\ threads[t].pc = "pop"
    /\ recent_alerts # << >>
    /\ recent_alerts' = Tail(recent_alerts)
    /\ threads' = [ threads EXCEPT ![t].pc = "check" ]
    /\ UNCHANGED << pushed, returned, pc >>
    /\ ThreadFrame

\* if len(self.recent_alerts) == self.buffer_size ... return False
\* (lines 33, 36)
ThreadCheck(t) ==
    /\ pc = "threads" /\ threads[t].pc = "check"
    /\ IF Len(recent_alerts) = buffer_size
       THEN /\ threads' = [ threads EXCEPT ![t].pc = "all" ]
            /\ UNCHANGED returned
       ELSE /\ threads' = [ threads EXCEPT ![t].pc = "done",
                                           ![t].result = FALSE ]
            /\ returned' = Append(returned, FALSE)
    /\ UNCHANGED << recent_alerts, pushed, pc >>
    /\ ThreadFrame

\* return all(self.recent_alerts)  (line 34)
ThreadAll(t) ==
    /\ pc = "threads" /\ threads[t].pc = "all"
    /\ threads' = [ threads EXCEPT ![t].pc = "done",
                                   ![t].result = AllTrue(recent_alerts) ]
    /\ returned' = Append(returned, AllTrue(recent_alerts))
    /\ UNCHANGED << recent_alerts, pushed, pc >>
    /\ ThreadFrame

NextThreads ==
    \/ \E p \in BOOLEAN : ShouldAlert(p)
    \/ \E p1, p2 \in BOOLEAN : Spawn(p1, p2)
    \/ \E t \in ThreadIds : ThreadAppend(t)
    \/ \E t \in ThreadIds : ThreadTest(t)
    \/ \E t \in ThreadIds : ThreadPop(t)
    \/ \E t \in ThreadIds : ThreadCheck(t)
    \/ \E t \in ThreadIds : ThreadAll(t)

SpecThreads == InitThreads /\ [][NextThreads]_vars

\* the buffer as it was when the two threads entered should_alert: the last
\* buffer_size values pushed by the calls made in turn before them
StartBuffer ==
    LET entered == Cardinality({ t \in ThreadIds : threads[t].pc # "append" })
        before == SubSeq(pushed, 1, Len(pushed) - entered)
    IN  LastK(before, Min(buffer_size, Len(before)))

\* the results of thread t and of the other thread u when t's call runs
\* whole before u's
SerialResults(t, u) ==
    LET first == should_alert(StartBuffer, buffer_size,
                              threads[t].current_prediction)
        second == should_alert(first.recent_alerts, buffer_size,
                               threads[u].current_prediction)
    IN  [ x \in {t, u} |-> IF x = t THEN first.result ELSE second.result ]

\* ---------------------------------------------------------------------
\* C18 as stated: under any interleaving of two threads on one scorer the
\* push / evict / check steps of should_alert are not interleaved: whenever
\* a thread checks the buffer its length is at most N, and when both calls
\* have returned their results are those of one of the two serial orders.
\* ---------------------------------------------------------------------
C18_ExclusiveEvaluation ==
    pc = "threads" =>
        /\ \A t \in ThreadIds :
              threads[t].pc \in { "check", "all" }
                  => Len(recent_alerts) <= buffer_size
        /\ (\A t \in ThreadIds : threads[t].pc = "done") =>
              \/ \A t \in ThreadIds :
                    threads[t].result = SerialResults(1, 2)[t]
              \/ \A t \in ThreadIds :
                    threads[t].result = SerialResults(2, 1)[t]

(***************************************************************************)
(* SpecRequests: several POST /predict requests answered in turn by one    *)
(* process                                                                 *)
(***************************************************************************)
MaxRequests == 3

RequestSamples ==
    { [ heart_rate |-> 70, spo2 |-> 98, sbp |-> 120 ],
      [ heart_rate |-> 150, spo2 |-> 90, sbp |-> 120 ] }

\* the empty batch and the batches of the least length that yields a
\* feature window
RequestBatches == { << >> } \cup [ 1..MinWindowRows -> RequestSamples ]

InitRequests ==
    /\ batch \in RequestBatches
    /\ response = NoResponse
    /\ model_invoked = FALSE
    /\ latest = NoLatest
    /\ served = << >>
    /\ IdleRun
    /\ IdleThreads
    /\ buffer_size = DefaultBufferSize
    /\ recent_alerts = << >>
    /\ pushed = << >>
    /\ returned = << >>
    /\ critical_override = TRUE
    /\ DefaultConfig
    /\ IdleScorer
    /\ pc = "request"

\* the next request arrives: predict is entered with fresh locals
\* (app.py lines 50-54)
NewRequest(b) ==
    /\ pc = "responded"
    /\ Len(served) < MaxRequests
    /\ batch' = b
    /\ response' = NoResponse
    /\ model_invoked' = FALSE
    /\ latest' = NoLatest
    /\ pc' = "request"
    /\ UNCHANGED << served, frame, threads, buffer_size, recent_alerts,
                    min_confidence, min_abnormal_signals, motion_threshold,
                    critical_override, features, anomaly_score, confidence,
                    decision, pushed, returned, log >>

NextRequests ==
    \/ PredictOverride
    \/ PredictNoFeatures
    \/ \E anomaly_flag \in BOOLEAN, confidence_mean \in WindowConfidences :
           PredictModel(anomaly_flag, confidence_mean)
    \/ \E b \in RequestBatches : NewRequest(b)

SpecRequests == InitRequests /\ [][NextRequests]_vars

\* the raw-vitals summary of an answered request
SummaryOf(b) ==
    IF b = << >>
    THEN [ min_spo2 |-> 100, max_hr |-> 60, min_sbp |-> 120, max_sbp |-> 120 ]
    ELSE [ min_spo2 |-> SeqMin([ i \in 1..Len(b) |-> b[i].spo2 ]),
           max_hr |-> SeqMax([ i \in 1..Len(b) |-> b[i].heart_rate ]),
           min_sbp |-> SeqMin([ i \in 1..Len(b) |-> b[i].sbp ]),
           max_sbp |-> SeqMax([ i \in 1..Len(b) |-> b[i].sbp ]) ]

\* what the gate decided for an answered request: overridden or not, and
\* the overriding answer
GateOutcome(s) ==
    IF s.response.safety_override THEN s.response ELSE NoResponse

\* ---------------------------------------------------------------------
\* C21: the Safety Override Gate is stateless and idempotent. Any two
\* requests with the same raw-vitals summary are both overridden with the
\* same (anomaly, risk_score, safety_override) or both passed on, whatever
\* was answered before or between them, and the outcome is the one the
\* table gives for the summary alone.
\* ---------------------------------------------------------------------
C21_GateIdempotent ==
    /\ \A i, j \in 1..Len(served) :
          SummaryOf(served[i].batch) = SummaryOf(served[j].batch)
              => GateOutcome(served[i]) = GateOutcome(served[j])
    /\ \A i \in 1..Len(served) :
          LET scores == TriggeredScores(SummaryOf(served[i].batch))
          IN  GateOutcome(served[i]) =
                 IF scores = {} THEN NoResponse
                 ELSE Response(TRUE, SetMax(scores), TRUE)

\* C21 witness: the same summary answered twice with the same override,
\* from two different batches, with a request that was passed to the
\* model in between
C21_Witness ==
    /\ Len(served) = 3
    /\ served[1].batch # served[3].batch
    /\ SummaryOf(served[1].batch) = SummaryOf(served[3].batch)
    /\ served[1].response.safety_override
    /\ served[3].response = served[1].response
    /\ ~served[2].response.safety_override
    /\ served[2].response.anomaly

\* ---------------------------------------------------------------------
\* C22: monotonic score composition. A window that reaches the composite
\* stage gets risk_score = min(100 * anomaly_score + min(5 * abnormal_count,
\* 20), 100); evaluated with any other anomaly_score it reaches the
\* composite stage with the same abnormal_count, and with a larger
\* anomaly_score its risk_score is never smaller.
\* ---------------------------------------------------------------------
C22_MonotonicComposite ==
    [][ (pc = "call" /\ pc' = "returned"
            /\ decision'.stage \in TemporalStages) =>
          /\ decision'.risk_score =
                CompositeScore(anomaly_score, Len(decision'.abnormal_signals))
          /\ \A a2 \in AnomalyScores :
                LET d2 == calculate_risk_score(features, a2, confidence,
                                               recent_alerts)
                IN  /\ d2.stage \in TemporalStages
                    /\ d2.abnormal_signals = decision'.abnormal_signals
                    /\ a2 >= anomaly_score
                          => d2.risk_score >= decision'.risk_score
                    /\ a2 <= anomaly_score
                          => d2.risk_score <= decision'.risk_score ]_vars

\* C22 witness: a window at the composite stage with two abnormal signals
\* and anomaly_score 0.8, between the scores 0.6 (risk 70) and 1.0 (risk
\* capped at 100)
C22_Witness ==
    /\ pc = "returned"
    /\ decision.stage \in TemporalStages
    /\ Len(decision.abnormal_signals) = 2
    /\ anomaly_score = 8
    /\ decision.risk_score = 900
    /\ CompositeScore(6, 2) = 700
    /\ CompositeScore(10, 2) = 1000

(***************************************************************************)
(* SpecReconfig: a session in which the caller assigns new values to the   *)
(* scorer's configuration attributes between window evaluations            *)
(* (scorer.min_confidence = ..., scorer.alert_buffer.buffer_size = ...)    *)
(***************************************************************************)
ReconfigWindows ==
    { \* hypoxemia
      [ NormalWindow EXCEPT !.spo2_mean = 89, !.spo2_min = 85, !.hr_mean = 110 ],
      \* two abnormal signals, not critical
      [ NormalWindow EXCEPT !.spo2_mean = 91, !.hr_mean = 110, !.sbp_mean = 95 ],
      \* the same in a moving vehicle
      [ NormalWindow EXCEPT !.spo2_mean = 91, !.hr_mean = 110, !.sbp_mean = 95,
                            !.motion_std = 8 ] }

\* values on both sides of what those windows carry
MinConfidences == { DefaultMinConfidence, 9 }
MinAbnormalSignals == { DefaultMinAbnormalSignals, 3 }
MotionThresholds == { DefaultMotionThreshold, 9 }

ConfigFrame ==
    UNCHANGED << recent_alerts, pushed, returned, log, features,
                 anomaly_score, confidence, decision, latest, served, frame,
                 threads, batch, response, model_invoked, pc >>

\* scorer.min_confidence = v
SetMinConfidence(v) ==
    /\ pc = "session" /\ v # min_confidence
    /\ min_confidence' = v
    /\ UNCHANGED << min_abnormal_signals, motion_threshold,
                    critical_override, buffer_size >>
    /\ ConfigFrame

\* scorer.min_abnormal_signals = v
SetMinAbnormalSignals(v) ==
    /\ pc = "session" /\ v # min_abnormal_signals
    /\ min_abnormal_signals' = v
    /\ UNCHANGED << min_confidence, motion_threshold, critical_override,
                    buffer_size >>
    /\ ConfigFrame

\* scorer.motion_threshold = v
SetMotionThreshold(v) ==
    /\ pc = "session" /\ v # motion_threshold
    /\ motion_threshold' = v
    /\ UNCHANGED << min_confidence, min_abnormal_signals, critical_override,
                    buffer_size >>
    /\ ConfigFrame

\* scorer.critical_override = v
SetCriticalOverride(v) ==
    /\ pc = "session" /\ v # critical_override
    /\ critical_override' = v
    /\ UNCHANGED << min_confidence, min_abnormal_signals, motion_threshold,
                    buffer_size >>
    /\ ConfigFrame

\* scorer.alert_buffer.buffer_size = n
SetBufferSize(n) ==
    /\ pc = "session" /\ n # buffer_size
    /\ buffer_size' = n
    /\ UNCHANGED << min_confidence, min_abnormal_signals, motion_threshold,
                    critical_override >>
    /\ ConfigFrame

NextReconfig ==
    \/ \E f \in ReconfigWindows : EvaluateWindow(f, 8, 7)
    \/ \E v \in MinConfidences : SetMinConfidence(v)
    \/ \E v \in MinAbnormalSignals : SetMinAbnormalSignals(v)
    \/ \E v \in MotionThresholds : SetMotionThreshold(v)
    \/ \E v \in BOOLEAN : SetCriticalOverride(v)
    \/ \E n \in 1..MaxCascadeBuffer : SetBufferSize(n)

InitReconfig ==
    /\ buffer_size \in 1..MaxCascadeBuffer
    /\ recent_alerts = << >>
    /\ pushed = << >>
    /\ returned = << >>
    /\ critical_override = TRUE
    /\ DefaultConfig
    /\ IdleScorer
    /\ IdleGate
    /\ IdleRun
    /\ IdleThreads
    /\ pc = "session"

SpecReconfig == InitReconfig /\ [][NextReconfig]_vars

\* the stage the cascade rules give a complete window under the current
\* values of the configuration attributes ("temporal" stands for either
\* temporal stage)
StageUnder(f, c) ==
    IF ImplausibleByRule(f) THEN "plausibility_failed"
    ELSE IF CriticalByRule(f) /\ critical_override THEN "critical_override"
    ELSE IF AbnormalCount(f) < min_abnormal_signals
    THEN "insufficient_signals"
    ELSE IF ~CriticalByRule(f)
            /\ (f["motion_std"] > motion_threshold \/ f["motion_max"] > 10)
    THEN "motion_artifact"
    ELSE IF ~CriticalByRule(f) /\ c < min_confidence THEN "low_confidence"
    ELSE "temporal"

ConfigChanged ==
    << min_confidence, min_abnormal_signals, motion_threshold,
       critical_override, buffer_size >>'
        # << min_confidence, min_abnormal_signals, motion_threshold,
             critical_override, buffer_size >>

TemporalFlags(k) ==
    LET AtTemporalStage(e) == e.stage \in TemporalStages
        reached == SelectSeq(SubSeq(log, 1, k), AtTemporalStage)
    IN  [ i \in 1..Len(reached) |-> reached[i].risk_score > 700 ]

C25_AlertStages ==
    (pc = "returned" /\ buffer_size >= 1) =>
        /\ decision.alert =>
              /\ decision.stage \in { "critical_override", "confirmed_alert" }
              /\ decision.risk_score > 700
        /\ (~decision.alert /\ decision.risk_score > 700)
              => decision.stage = "awaiting_confirmation"
        /\ decision.stage = "plausibility_failed" => decision.risk_score = 0
        /\ decision.stage = "insufficient_signals"
              => decision.risk_score <= 500
        /\ decision.stage = "motion_artifact" => decision.risk_score <= 400
        /\ decision.stage = "low_confidence" => decision.risk_score <= 600
        /\ decision.stage \in
              { "plausibility_failed", "insufficient_signals",
                "motion_artifact", "low_confidence",
                "awaiting_confirmation" } => ~decision.alert

\* C25 witness: a raw alert (risk_score 80) that completes a full buffer of
\* raw alerts and is confirmed, critical override disabled
C25_Witness ==
    /\ pc = "returned"
    /\ buffer_size = 2
    /\ ~critical_override
    /\ decision.alert
    /\ decision.stage = "confirmed_alert"
    /\ decision.risk_score = 800
    /\ recent_alerts = << TRUE, TRUE >>

\* ---------------------------------------------------------------------
\* C26: with temporal_buffer_size = 0 every window that reaches the
\* temporal stage is answered confirmed_alert with alert = true, even when
\* its risk_score is not above 70; with a negative temporal_buffer_size no
\* window is ever confirmed; in both cases the buffer is empty after every
\* push.
\* ---------------------------------------------------------------------
C26_DegenerateBufferSize ==
    /\ buffer_size = 0 =>
          /\ \A k \in 1..Len(log) :
                /\ log[k].stage # "awaiting_confirmation"
                /\ log[k].stage = "confirmed_alert" => log[k].alert
          /\ \A i \in 1..Len(returned) : returned[i]
    /\ buffer_size < 0 =>
          /\ \A k \in 1..Len(log) :
                /\ log[k].stage # "confirmed_alert"
                /\ log[k].alert => log[k].stage = "critical_override"
          /\ \A i \in 1..Len(returned) : ~returned[i]
    /\ buffer_size <= 0 =>
          /\ recent_alerts = << >>
          /\ Len(returned) = Len(pushed)

\* C26 witness: buffer size 0, a window with risk_score 70 (not a raw
\* alert) confirmed on its first evaluation, the buffer empty afterwards
C26_Witness ==
    /\ pc = "session"
    /\ buffer_size = 0
    /\ Len(log) = 1
    /\ log[1].stage = "confirmed_alert"
    /\ log[1].alert
    /\ log[1].risk_score <= 700
    /\ pushed = << FALSE >>
    /\ recent_alerts = << >>

\* ---------------------------------------------------------------------
\* C27: with critical_override disabled, a plausible window that satisfies
\* a critical condition is never answered critical_override and is never
\* suppressed by the motion or the confidence gate; it is answered
\* insufficient_signals with alert = false (buffer untouched) when fewer
\* than min_abnormal_signals abnormal signals hold, and otherwise goes to
\* the temporal stage with the composite risk_score, where it is
\* awaiting_confirmation unless its push leaves the buffer with N raw
\* alerts.
\* ---------------------------------------------------------------------
C27_OverrideDisabled ==
    [][ (/\ pc = "call" /\ pc' = "returned"
         /\ ~critical_override
         /\ Complete(features)
         /\ ~ImplausibleByRule(features)
         /\ CriticalByRule(features)) =>
          IF AbnormalCount(features) < min_abnormal_signals
          THEN /\ decision'.stage = "insufficient_signals"
               /\ ~decision'.alert
               /\ recent_alerts' = recent_alerts
          ELSE LET risk == CompositeScore(anomaly_score,
                                          AbnormalCount(features))
                   b == should_alert(recent_alerts, buffer_size, risk > 700)
               IN  /\ decision'.stage = IF b.result THEN "confirmed_alert"
                                        ELSE "awaiting_confirmation"
                   /\ decision'.alert = b.result
                   /\ decision'.risk_score = risk
                   /\ decision'.critical
                   /\ recent_alerts' = b.recent_alerts ]_vars

\* C27 witness: a critical window with at least two abnormal signals, in
\* high motion and at low confidence, awaiting confirmation
C27_Witness ==
    /\ pc = "returned"
    /\ ~critical_override
    /\ Complete(features)
    /\ CriticalByRule(features)
    /\ HighMotion(features)
    /\ confidence < min_confidence
    /\ buffer_size = 2
    /\ decision.stage = "awaiting_confirmation"
    /\ decision.critical
    /\ decision.risk_score > 700

\* a tag is among the abnormal signals of a decision
Tagged(sig, tag) == \E i \in 1..Len(sig) : sig[i] = tag

\* ---------------------------------------------------------------------
\* C28: with critical override enabled, every window that reaches the
\* composite stage has between min_abnormal_signals and 4 abnormal
\* signals, never 'spo2_critical' or 'hr_critical' and never both
\* 'spo2_low' and 'hr_high' among them; so the signal boost is at its cap
\* of 20 exactly when the count is 4, and the risk_score is above 70 only
\* for an anomaly_score above 0.5, whatever score the window is given.
\* ---------------------------------------------------------------------
C28_CompositeSignalCount ==
    (pc = "returned" /\ critical_override
        /\ decision.stage \in TemporalStages) =>
        LET sig == decision.abnormal_signals
            n == Len(sig)
        IN  /\ n >= min_abnormal_signals
            /\ n <= 4
            /\ ~Tagged(sig, "spo2_critical")
            /\ ~Tagged(sig, "hr_critical")
            /\ ~(Tagged(sig, "spo2_low") /\ Tagged(sig, "hr_high"))
            /\ decision.risk_score - 100 * anomaly_score = 200
                  => n = 4
            /\ n = 4 => decision.risk_score
                            = Min(100 * anomaly_score + 200, 1000)
            /\ decision.risk_score > 700 => anomaly_score > 5
            /\ \A a2 \in 0..10 :
                  calculate_risk_score(features, a2, confidence,
                                       recent_alerts).risk_score > 700
                      => a2 > 5

\* C28 witness: four abnormal signals, anomaly_score 0.6, risk_score 80
C28_Witness ==
    /\ pc = "returned"
    /\ critical_override
    /\ decision.stage \in TemporalStages
    /\ Len(decision.abnormal_signals) = 4
    /\ anomaly_score = 6
    /\ decision.risk_score = 800

\* a batch of n rows repeating the rows of b (same raw-vitals summary)
Repeated(b, n) == [ i \in 1..n |-> b[((i - 1) % Len(b)) + 1] ]

\* ---------------------------------------------------------------------
\* C29: a /predict request of 3 to 30 samples that does not trigger the
\* gate yields exactly one feature window (so does the same request
\* stretched to any length up to 30), every component of
\* compute_risk_score is normalized to 1.0 and the response risk_score is
\* 100 whatever the vitals; the response anomaly is the anomaly model's
\* flag, while the persistence-confirmed alert of compute_risk_score is
\* false.
\* ---------------------------------------------------------------------
C29_SingleWindowRequest ==
    (/\ pc = "responded"
     /\ Len(batch) >= MinWindowRows /\ Len(batch) <= WindowSize
     /\ TriggeredScores(RequestSummary) = {}) =>
        /\ \A n \in Len(batch)..WindowSize :
              extract_window_features(clean_vitals(Repeated(batch, n))) = 1
        /\ model_invoked
        /\ 5 * normalize_single + 3 * normalize_single
              + 2 * normalize_single = 100
        /\ latest.risk_score = 1000
        /\ response.risk_score = 1000
        /\ response.anomaly = latest.anomaly_flag
        /\ ~latest.alert
        /\ ~response.safety_override

\* C29 witness: three samples with spo2 = 92, flagged by the model: the
\* response says anomaly with risk 100 although no alert persisted
C29_Witness ==
    /\ pc = "responded"
    /\ Len(batch) = 3
    /\ \A i \in 1..3 : batch[i].spo2 = 92
    /\ ~response.safety_override
    /\ response.anomaly
    /\ response.risk_score = 1000
    /\ ~latest.alert

\* the predictions frame of the run has no 'confidence' column
NoConfidenceColumn ==
    \A k \in 1..Len(frame) : "confidence" \notin DOMAIN frame[k].pred

\* ---------------------------------------------------------------------
\* C30: in a run of apply_enhanced_risk_scoring whose predictions frame
\* has no 'confidence' column the confidence of every row defaults to 0.5,
\* so with min_confidence > 0.5 no row reaches the temporal stage: every
\* row with enhanced_alert = 1 has stage critical_override, no row has
\* stage confirmed_alert or awaiting_confirmation, and the buffer is empty
\* and never pushed to during the whole run.
\* ---------------------------------------------------------------------
C30_NoConfidenceColumn ==
    (pc = "run" /\ NoConfidenceColumn /\ min_confidence > 5) =>
        /\ \A k \in 1..Len(log) :
              /\ log[k].stage \notin TemporalStages
              /\ log[k].alert => log[k].stage = "critical_override"
        /\ Len(log) > 0 => confidence = 5
        /\ recent_alerts = << >>
        /\ pushed = << >>
        /\ returned = << >>

\* C30 witness: a frame without confidence column scored to the end, with
\* a critical row that alerts and a two-signal row held back for its
\* confidence
C30_Witness ==
    /\ pc = "run"
    /\ NoConfidenceColumn
    /\ Len(frame) = 3 /\ Len(log) = 3
    /\ \E i, j \in 1..3 :
          /\ log[i].alert /\ log[i].stage = "critical_override"
          /\ log[j].stage = "low_confidence"
          /\ frame[j].pred.anomaly_score = 8
    /\ recent_alerts = << >>

====
